---- MODULE Spec2Model ----
(***************************************************************************)
(* A model of regex_cpp (src/main.cpp): a Brzozowski-derivative regular    *)
(* expression matcher.  Nodes live in a heap and are identified by their   *)
(* address (index in the heap); Or, Concat and Star nodes are interned in  *)
(* three static caches keyed by operand addresses; parse_regex is an       *)
(* operator-precedence parser over two stacks; is_match derives the root   *)
(* node by each symbol of the text and asks whether the result is          *)
(* nullable.                                                               *)
(***************************************************************************)
EXTENDS Integers, Sequences, FiniteSets, TLC

VARIABLES
    heap,        \* every Regex object ever allocated, by address 1..Len(heap)
    orCache,     \* Or::cache     : RegexKey -> address
    catCache,    \* Concat::cache : RegexKey -> address
    starCache,   \* Star::cache   : address  -> address
    s,           \* parse_regex: the pattern
    i,           \* parse_regex: index of the next symbol to read (1-based)
    operands,    \* parse_regex: the operand stack (top is the last element)
    ops,         \* parse_regex: the operator stack (top is the last element)
    prev,        \* parse_regex: the previous operand, or NullPtr
    pc,          \* parse_regex: "scan", "returned", "error", "ub", "crashed", "idle"
    retval,      \* parse_regex: the returned node
    lastTok,     \* parse_regex: the symbol c of the last loop iteration and whether it was escaped
    parenBase,   \* history: for each '(' on ops, the operand stack depth when it was pushed
    scopeBreak,  \* history: an operator took an operand pushed before the innermost open '('
    lastCall,    \* library use: the last constructor call made by the caller
    cur,         \* library use: what that call returned
    nCalls,      \* library use: number of library calls made by the caller
    root,        \* is_match: the regex argument
    text,        \* is_match: the text argument
    j,           \* is_match: number of symbols consumed
    result,      \* is_match: the working node
    matched,     \* is_match: the returned value
    mpc,         \* is_match: "build", "match", "done", "idle"
    trail,       \* history: the working nodes of is_match so far, oldest first
    created      \* history: number of nodes the last operation allocated

memvars == <<heap, orCache, catCache, starCache>>
parsevars == <<s, i, operands, ops, prev, pc, retval, lastTok, parenBase, scopeBreak>>
libvars == <<lastCall, cur, nCalls>>
matchvars == <<root, text, j, result, matched, mpc, trail>>
vars == <<memvars, parsevars, libvars, matchvars, created>>

----------------------------------------------------------------------------
(* Bounds *)

MaxPatLen == 5      \* longest pattern given to parse_regex
MaxBuild == 3       \* most library calls a caller makes (constructors, then is_match)
MaxTextLen == 2     \* longest text given to is_match
MaxSuffix == 1      \* longest continuation the language comparison looks at
MaxChain == 7       \* longest text c^n in the star derivative chain

Literals == {"a", "b"}
PatAlphabet == Literals \cup {"(", ")", "*", "+", "?", "|", "\\"}
Sigma == Literals

SeqsUpTo(A, n) == UNION {[1..k -> A] : k \in 0..n}
Top(st) == st[Len(st)]
Pop(st) == SubSeq(st, 1, Len(st) - 1)

----------------------------------------------------------------------------
(* Node algebra: the heap and the six classes *)

NullPtr == 0
EmpId == 1
EpsId == 2

Node(t, c, a, b) == [type |-> t, c |-> c, r1 |-> a, r2 |-> b]
InitHeap == <<Node("Emp", "", NullPtr, NullPtr), Node("Eps", "", NullPtr, NullPtr)>>

Mem == [heap |-> heap, orCache |-> orCache, catCache |-> catCache, starCache |-> starCache]
Ret(m, r) == [m |-> m, r |-> r]

\* std::make_shared<Char>(c): always a fresh object
NewChar(m, c) ==
    Ret([m EXCEPT !.heap = Append(@, Node("Char", c, NullPtr, NullPtr))], Len(m.heap) + 1)

OrCreateNoLookup(m, a, b) ==
    IF a = NullPtr THEN Ret(m, b)
    ELSE IF b = NullPtr THEN Ret(m, a)
    ELSE IF a = b THEN Ret(m, a)
    ELSE LET key == <<"Or", a, b>>
             ptr == Len(m.heap) + 1
         IN  Ret([m EXCEPT !.heap = Append(@, Node("Or", "", a, b)),
                           !.orCache = (key :> ptr) @@ @], ptr)

OrCreate(m, a, b) ==
    IF a = NullPtr THEN Ret(m, b)
    ELSE IF b = NullPtr THEN Ret(m, a)
    ELSE IF a = b THEN Ret(m, a)
    ELSE LET key == <<"Or", a, b>>
             ptr == Len(m.heap) + 1
         IN  IF key \in DOMAIN m.orCache THEN Ret(m, m.orCache[key])
             ELSE Ret([m EXCEPT !.heap = Append(@, Node("Or", "", a, b)),
                                !.orCache = (key :> ptr) @@ @], ptr)

ConcatCreate(m, a, b) ==
    IF a = NullPtr THEN Ret(m, b)
    ELSE IF b = NullPtr THEN Ret(m, a)
    ELSE LET key == <<"Concat", a, b>>
             ptr == Len(m.heap) + 1
         IN  IF key \in DOMAIN m.catCache THEN Ret(m, m.catCache[key])
             ELSE Ret([m EXCEPT !.heap = Append(@, Node("Concat", "", a, b)),
                                !.catCache = (key :> ptr) @@ @], ptr)

StarCreateNoInsert(m, a) ==
    IF a = NullPtr THEN Ret(m, EpsId)
    ELSE IF a \in DOMAIN m.starCache THEN Ret(m, m.starCache[a])
    ELSE Ret([m EXCEPT !.heap = Append(@, Node("Star", "", a, NullPtr))], Len(m.heap) + 1)

StarCreate(m, a) ==
    IF a = NullPtr THEN Ret(m, EpsId)
    ELSE IF a \in DOMAIN m.starCache THEN Ret(m, m.starCache[a])
    ELSE LET ptr == Len(m.heap) + 1
         IN  Ret([m EXCEPT !.heap = Append(@, Node("Star", "", a, NullPtr)),
                           !.starCache = (a :> ptr) @@ @], ptr)

RECURSIVE is_contain_eps(_, _)
is_contain_eps(hp, n) ==
    LET nd == hp[n] IN
    CASE nd.type = "Emp" -> FALSE
      [] nd.type = "Eps" -> TRUE
      [] nd.type = "Char" -> FALSE
      [] nd.type = "Or" -> is_contain_eps(hp, nd.r1) \/ is_contain_eps(hp, nd.r2)
      [] nd.type = "Concat" -> is_contain_eps(hp, nd.r1) /\ is_contain_eps(hp, nd.r2)
      [] nd.type = "Star" -> TRUE

CharDeriveSwapped(c_, c) == IF c_ = c THEN EmpId ELSE EpsId

\* Char::derive
CharDerive(c_, c) == IF c_ = c THEN EpsId ELSE EmpId

\* The order in which the two arguments of a call are evaluated is left to the
\* compiler; it decides only the order in which new nodes are allocated.
ArgOrders == {"LR", "RL"}

RECURSIVE derive(_, _, _, _)
derive(m, n, c, ord) ==
    LET nd == m.heap[n] IN
    CASE nd.type = "Emp" -> Ret(m, EmpId)
      [] nd.type = "Eps" -> Ret(m, EmpId)
      [] nd.type = "Char" -> Ret(m, CharDerive(nd.c, c))
      [] nd.type = "Or" ->
            IF ord = "LR"
            THEN LET d1 == derive(m, nd.r1, c, ord)
                     d2 == derive(d1.m, nd.r2, c, ord)
                 IN  OrCreate(d2.m, d1.r, d2.r)
            ELSE LET d2 == derive(m, nd.r2, c, ord)
                     d1 == derive(d2.m, nd.r1, c, ord)
                 IN  OrCreate(d1.m, d1.r, d2.r)
      [] nd.type = "Concat" ->
            IF is_contain_eps(m.heap, nd.r1)
            THEN IF ord = "LR"
                 THEN LET d1 == derive(m, nd.r1, c, ord)
                          x  == ConcatCreate(d1.m, d1.r, nd.r2)
                          d2 == derive(x.m, nd.r2, c, ord)
                      IN  OrCreate(d2.m, x.r, d2.r)
                 ELSE LET d2 == derive(m, nd.r2, c, ord)
                          d1 == derive(d2.m, nd.r1, c, ord)
                          x  == ConcatCreate(d1.m, d1.r, nd.r2)
                      IN  OrCreate(x.m, x.r, d2.r)
            ELSE LET d1 == derive(m, nd.r1, c, ord)
                 IN  ConcatCreate(d1.m, d1.r, nd.r2)
      [] nd.type = "Star" ->
            IF ord = "LR"
            THEN LET d1 == derive(m, nd.r1, c, ord)
                     st == StarCreate(d1.m, nd.r1)
                 IN  ConcatCreate(st.m, d1.r, st.r)
            ELSE LET st == StarCreate(m, nd.r1)
                     d1 == derive(st.m, nd.r1, c, ord)
                 IN  ConcatCreate(d1.m, d1.r, st.r)

SetMem(m) ==
    /\ heap' = m.heap
    /\ orCache' = m.orCache
    /\ catCache' = m.catCache
    /\ starCache' = m.starCache
    /\ created' = Len(m.heap) - Len(heap)

----------------------------------------------------------------------------
(* The language of a node, defined by structure (the reference semantics) *)

RECURSIVE InLang(_, _, _)
InLang(hp, n, w) ==
    LET nd == hp[n] IN
    CASE nd.type = "Emp" -> FALSE
      [] nd.type = "Eps" -> w = <<>>
      [] nd.type = "Char" -> w = <<nd.c>>
      [] nd.type = "Or" -> InLang(hp, nd.r1, w) \/ InLang(hp, nd.r2, w)
      [] nd.type = "Concat" ->
            \E k \in 0..Len(w) :
                /\ InLang(hp, nd.r1, SubSeq(w, 1, k))
                /\ InLang(hp, nd.r2, SubSeq(w, k + 1, Len(w)))
      [] nd.type = "Star" ->
            \/ w = <<>>
            \/ \E k \in 1..Len(w) :
                /\ InLang(hp, nd.r1, SubSeq(w, 1, k))
                /\ InLang(hp, n, SubSeq(w, k + 1, Len(w)))

----------------------------------------------------------------------------
(* is_match, one loop iteration per step *)

MatchStep ==
    /\ mpc = "match"
    /\ j < Len(text)
    /\ \E ord \in ArgOrders :
         LET d == derive(Mem, result, text[j + 1], ord) IN
         /\ SetMem(d.m)
         /\ result' = d.r
         /\ trail' = Append(trail, d.r)
    /\ j' = j + 1
    /\ UNCHANGED <<root, text, matched, mpc, parsevars, libvars>>

MatchEnd ==
    /\ mpc = "match"
    /\ j = Len(text)
    /\ matched' = is_contain_eps(heap, result)
    /\ mpc' = "done"
    /\ created' = 0
    /\ UNCHANGED <<root, text, j, result, trail, memvars, parsevars, libvars>>

----------------------------------------------------------------------------
(* A caller of the library: constructor calls, then is_match *)

Ptrs == 0..Len(heap)

Built(call, r) ==
    /\ SetMem(r.m)
    /\ cur' = r.r
    /\ lastCall' = call
    /\ nCalls' = nCalls + 1
    /\ UNCHANGED <<parsevars, matchvars>>

CallChar ==
    /\ mpc = "build" /\ nCalls < MaxBuild
    /\ \E c \in Sigma : Built([fn |-> "Char", c |-> c, a |-> NullPtr, b |-> NullPtr], NewChar(Mem, c))

CallOr ==
    /\ mpc = "build" /\ nCalls < MaxBuild
    /\ \E a \in Ptrs, b \in Ptrs :
         Built([fn |-> "Or", c |-> "", a |-> a, b |-> b], OrCreate(Mem, a, b))

CallConcat ==
    /\ mpc = "build" /\ nCalls < MaxBuild
    /\ \E a \in Ptrs, b \in Ptrs :
         Built([fn |-> "Concat", c |-> "", a |-> a, b |-> b], ConcatCreate(Mem, a, b))

CallStar ==
    /\ mpc = "build" /\ nCalls < MaxBuild
    /\ \E a \in Ptrs :
         Built([fn |-> "Star", c |-> "", a |-> a, b |-> NullPtr], StarCreate(Mem, a))

StartMatch ==
    /\ mpc = "build" /\ nCalls < MaxBuild
    /\ cur # NullPtr
    /\ \E t \in SeqsUpTo(Sigma, MaxTextLen) : text' = t
    /\ root' = cur
    /\ result' = cur
    /\ trail' = <<cur>>
    /\ j' = 0
    /\ mpc' = "match"
    /\ created' = 0
    /\ nCalls' = nCalls + 1
    /\ UNCHANGED <<matched, memvars, parsevars, lastCall, cur>>

\* Star(a) for a node a the caller holds, matched against c^n
StartChain ==
    /\ mpc = "build" /\ nCalls < MaxBuild
    /\ cur # NullPtr
    /\ \E c \in Sigma, n \in 0..MaxChain :
         LET st == StarCreate(Mem, cur) IN
         /\ SetMem(st.m)
         /\ root' = st.r
         /\ result' = st.r
         /\ trail' = <<st.r>>
         /\ text' = [k \in 1..n |-> c]
    /\ j' = 0
    /\ mpc' = "match"
    /\ nCalls' = nCalls + 1
    /\ UNCHANGED <<matched, parsevars, lastCall, cur>>

NoCall == [fn |-> "none", c |-> "", a |-> NullPtr, b |-> NullPtr]
NoTok == [esc |-> FALSE, c |-> ""]

InitMem ==
    /\ heap = InitHeap
    /\ orCache = <<>>
    /\ catCache = <<>>
    /\ starCache = <<>>
    /\ created = 0

IdleParse ==
    /\ s = <<>> /\ i = 1 /\ operands = <<>> /\ ops = <<>> /\ prev = NullPtr
    /\ pc = "idle" /\ retval = NullPtr /\ lastTok = NoTok
    /\ parenBase = <<>> /\ scopeBreak = FALSE

IdleMatch(m) ==
    /\ root = NullPtr /\ text = <<>> /\ j = 0 /\ result = NullPtr
    /\ matched = FALSE /\ mpc = m /\ trail = <<>>

IdleLib == lastCall = NoCall /\ cur = NullPtr /\ nCalls = 0

InitAlg == InitMem /\ IdleParse /\ IdleLib /\ IdleMatch("build")

NextAlg == CallChar \/ CallOr \/ CallConcat \/ CallStar \/ StartMatch \/ MatchStep \/ MatchEnd

SpecAlg == InitAlg /\ [][NextAlg]_vars

NextStar == CallChar \/ CallOr \/ CallConcat \/ CallStar \/ StartChain \/ MatchStep \/ MatchEnd

SpecStar == InitAlg /\ [][NextStar]_vars

----------------------------------------------------------------------------
(* parse_regex, one iteration of its for loop per step *)

\* The stacks and the memory while a step runs.  ub: top() or pop() was called
\* on an empty stack; err: an exception was thrown; brk: see scopeBreak.
PState == [m |-> Mem, operands |-> operands, ops |-> ops,
           ub |-> FALSE, err |-> FALSE, brk |-> scopeBreak]

CurBase == IF parenBase = <<>> THEN 0 ELSE Top(parenBase)

apply_op(P, op) ==
    IF op \in {"|", "."}
    THEN IF Len(P.operands) < 2
         THEN [P EXCEPT !.ub = TRUE]
         ELSE LET b == P.operands[Len(P.operands)]
                  a == P.operands[Len(P.operands) - 1]
                  r == IF op = "|" THEN OrCreate(P.m, a, b) ELSE ConcatCreate(P.m, a, b)
              IN  [P EXCEPT !.m = r.m,
                            !.operands = Append(SubSeq(P.operands, 1, Len(P.operands) - 2), r.r),
                            !.brk = P.brk \/ Len(P.operands) - 2 < CurBase]
    ELSE P

precedenceSwapped(op) ==
    CASE op \in {"*", "+", "?"} -> 4
      [] op = "." -> 2
      [] op = "|" -> 3
      [] OTHER -> 0

precedence(op) ==
    CASE op \in {"*", "+", "?"} -> 4
      [] op = "." -> 3
      [] op = "|" -> 2
      [] OTHER -> 0

RECURSIVE process_stack(_, _)
process_stack(P, op) ==
    IF ~P.ub /\ P.ops # <<>> /\ precedence(Top(P.ops)) >= precedence(op)
    THEN process_stack(apply_op([P EXCEPT !.ops = Pop(P.ops)], Top(P.ops)), op)
    ELSE P

\* the while loop of the ')' branch
RECURSIVE CloseLoop(_)
CloseLoop(P) ==
    IF ~P.ub /\ P.ops # <<>> /\ Top(P.ops) # "("
    THEN LET Q == apply_op(P, Top(P.ops))
         IN  CloseLoop(IF Q.ub THEN Q ELSE [Q EXCEPT !.ops = Pop(Q.ops)])
    ELSE P

\* the while loop after the scan
RECURSIVE FlushLoop(_)
FlushLoop(P) ==
    IF ~P.ub /\ P.ops # <<>>
    THEN IF Top(P.ops) \in {"(", ")"}
         THEN [P EXCEPT !.err = TRUE]
         ELSE LET Q == apply_op(P, Top(P.ops))
              IN  FlushLoop(IF Q.ub THEN Q ELSE [Q EXCEPT !.ops = Pop(Q.ops)])
    ELSE P

Scanning == pc = "scan" /\ i <= Len(s)
Escaped == s[i] = "\\"
DanglingEscape == Escaped /\ i + 1 > Len(s)
TokC == IF Escaped THEN s[i + 1] ELSE s[i]
TokNext == IF Escaped THEN i + 2 ELSE i + 1

\* What a step leaves behind: memory and stacks of P, then the rest.
Leave(P, pr, pcv, base, ret) ==
    /\ SetMem(P.m)
    /\ operands' = P.operands
    /\ ops' = P.ops
    /\ scopeBreak' = P.brk
    /\ prev' = pr
    /\ pc' = IF P.ub THEN "ub" ELSE pcv
    /\ parenBase' = base
    /\ retval' = ret
    /\ UNCHANGED <<s, libvars, matchvars>>

Consume ==
    /\ i' = TokNext
    /\ lastTok' = [esc |-> Escaped, c |-> TokC]

ScanEscapeError ==
    /\ Scanning /\ DanglingEscape
    /\ i' = i + 1
    /\ lastTok' = NoTok
    /\ Leave(PState, prev, "error", parenBase, NullPtr)

ScanOpen ==
    /\ Scanning /\ ~DanglingEscape /\ TokC = "("
    /\ Consume
    /\ Leave([PState EXCEPT !.ops = Append(ops, "(")], NullPtr, "scan",
             Append(parenBase, Len(operands)), NullPtr)

ScanClose ==
    /\ Scanning /\ ~DanglingEscape /\ TokC = ")"
    /\ Consume
    /\ LET P == CloseLoop(PState) IN
       IF P.ub THEN Leave(P, prev, "ub", parenBase, NullPtr)
       ELSE IF P.ops = <<>> THEN Leave(P, prev, "error", parenBase, NullPtr)
       ELSE LET Q == [P EXCEPT !.ops = Pop(P.ops)] IN
            IF Q.operands = <<>>
            THEN Leave([Q EXCEPT !.ub = TRUE], prev, "ub", Pop(parenBase), NullPtr)
            ELSE Leave(Q, Top(Q.operands), "scan", Pop(parenBase), NullPtr)

ScanPostfix ==
    /\ Scanning /\ ~DanglingEscape /\ TokC \in {"*", "+", "?"}
    /\ Consume
    /\ IF prev = NullPtr THEN Leave(PState, prev, "error", parenBase, NullPtr)
       ELSE IF operands = <<>> THEN Leave([PState EXCEPT !.ub = TRUE], prev, "ub", parenBase, NullPtr)
       ELSE LET st == StarCreate(Mem, prev)
                r == CASE TokC = "*" -> st
                       [] TokC = "+" -> ConcatCreate(st.m, prev, st.r)
                       [] TokC = "?" -> OrCreate(Mem, EpsId, prev)
            IN  Leave([PState EXCEPT !.m = r.m, !.operands = Append(Pop(operands), r.r)],
                      r.r, "scan", parenBase, NullPtr)

ScanAlt ==
    /\ Scanning /\ ~DanglingEscape /\ TokC = "|"
    /\ Consume
    /\ LET P == process_stack(PState, "|") IN
       IF P.ub THEN Leave(P, prev, "ub", parenBase, NullPtr)
       ELSE Leave([P EXCEPT !.ops = Append(P.ops, "|")], NullPtr, "scan", parenBase, NullPtr)

ScanLiteral ==
    /\ Scanning /\ ~DanglingEscape /\ TokC \notin {"(", ")", "*", "+", "?", "|"}
    /\ Consume
    /\ LET r == NewChar(Mem, TokC)
           P0 == [PState EXCEPT !.m = r.m]
           P == IF prev # NullPtr THEN process_stack(P0, ".") ELSE P0
       IN  IF P.ub THEN Leave(P, prev, "ub", parenBase, NullPtr)
           ELSE Leave([P EXCEPT !.ops = IF prev # NullPtr THEN Append(P.ops, ".") ELSE P.ops,
                                !.operands = Append(P.operands, r.r)],
                      r.r, "scan", parenBase, NullPtr)

\* end of the scan: flush the operators, require exactly one operand
Finish ==
    /\ pc = "scan" /\ i > Len(s)
    /\ UNCHANGED i
    /\ lastTok' = NoTok
    /\ LET P == FlushLoop(PState) IN
       IF P.ub THEN Leave(P, prev, "ub", parenBase, NullPtr)
       ELSE IF P.err THEN Leave(P, prev, "error", parenBase, NullPtr)
       ELSE IF Len(P.operands) # 1 THEN Leave(P, prev, "error", parenBase, NullPtr)
       ELSE Leave(P, prev, "returned", parenBase, Top(P.operands))

\* top() or pop() on an empty std::stack is undefined: the call may crash,
\* may end in an exception, or may go on with a garbage operand and return some node.
UndefinedBehaviour ==
    /\ pc = "ub"
    /\ \/ pc' = "crashed" /\ retval' = NullPtr
       \/ pc' = "error" /\ retval' = NullPtr
       \/ pc' = "returned" /\ retval' \in 1..Len(heap)
    /\ created' = 0
    /\ UNCHANGED <<memvars, s, i, operands, ops, prev, lastTok, parenBase, scopeBreak,
                   libvars, matchvars>>

Init ==
    /\ InitMem
    /\ s \in SeqsUpTo(PatAlphabet, MaxPatLen)
    /\ i = 1 /\ operands = <<>> /\ ops = <<>> /\ prev = NullPtr
    /\ pc = "scan" /\ retval = NullPtr /\ lastTok = NoTok
    /\ parenBase = <<>> /\ scopeBreak = FALSE
    /\ IdleLib /\ IdleMatch("idle")

Next ==
    \/ ScanEscapeError \/ ScanOpen \/ ScanClose \/ ScanPostfix \/ ScanAlt \/ ScanLiteral
    \/ Finish \/ UndefinedBehaviour

Spec == Init /\ [][Next]_vars

----------------------------------------------------------------------------
(* Claims about the node algebra, the caches and the matcher *)

Words(n) == SeqsUpTo(Sigma, n)

\* C1: is_match(R, t) is true iff t is in the language of R.  After each
\* derivation step the working node denotes exactly the continuations w for
\* which (consumed text).w is in L(R); is_contain_eps of the working node says
\* whether it contains the empty string; the value returned at the end is the
\* membership of the whole text (matching is anchored at both ends).
C1_MatchIsMembership ==
    mpc \in {"match", "done"} =>
        /\ \A w \in Words(MaxSuffix) :
              InLang(heap, result, w) = InLang(heap, root, SubSeq(text, 1, j) \o w)
        /\ is_contain_eps(heap, result) = InLang(heap, result, <<>>)
        /\ (mpc = "done" => matched = InLang(heap, root, text))

C1_Witness ==
    /\ mpc = "done" /\ matched /\ Len(text) = 2
    /\ heap[root].type = "Star" /\ heap[heap[root].r1].type = "Char"

Compound == {"Or", "Concat", "Star"}

CachesWellFormed ==
    /\ \A k \in DOMAIN orCache :
          k[1] = "Or" /\ heap[orCache[k]] = Node("Or", "", k[2], k[3])
    /\ \A k \in DOMAIN catCache :
          k[1] = "Concat" /\ heap[catCache[k]] = Node("Concat", "", k[2], k[3])
    /\ \A a \in DOMAIN starCache :
          heap[starCache[a]] = Node("Star", "", a, NullPtr)
    /\ \A p \in 1..Len(heap), q \in 1..Len(heap) :
          (p # q /\ heap[p].type \in Compound) => heap[p] # heap[q]
    /\ \A a \in 1..Len(heap), b \in 1..Len(heap) :
          (<<"Or", a, b>> \in DOMAIN orCache /\ <<"Or", b, a>> \in DOMAIN orCache /\ a # b)
              => orCache[<<"Or", a, b>>] # orCache[<<"Or", b, a>>]

CachesOnlyGrow ==
    /\ \A k \in DOMAIN orCache : k \in DOMAIN orCache' /\ orCache'[k] = orCache[k]
    /\ \A k \in DOMAIN catCache : k \in DOMAIN catCache' /\ catCache'[k] = catCache[k]
    /\ \A a \in DOMAIN starCache : a \in DOMAIN starCache' /\ starCache'[a] = starCache[a]

\* C7: interning.  Each cache maps an identity key to one node whose children
\* are the operands of the key; no two compound nodes of the heap have the
\* same class and the same operands in the same order (so two calls with the
\* same operands return the identical node); (a,b) and (b,a) are distinct
\* keys with distinct nodes; an entry is never replaced or removed.
C7_Interning == []CachesWellFormed /\ [][CachesOnlyGrow]_vars

C7_Witness ==
    /\ lastCall.fn = "Or" /\ lastCall.a # lastCall.b
    /\ lastCall.a # NullPtr /\ lastCall.b # NullPtr
    /\ created = 0
    /\ <<"Or", lastCall.b, lastCall.a>> \in DOMAIN orCache
    /\ cur = orCache[<<"Or", lastCall.a, lastCall.b>>]

\* C8: deriving Star(a) repeatedly by c revisits an already existing node, so
\* the number of nodes created does not grow with the number of steps: among
\* the working nodes of a chain of MaxChain steps some node occurs twice.
C8_StarChainRevisits ==
    (mpc = "match" /\ j = MaxChain) =>
        \E p \in 1..Len(trail), q \in 1..Len(trail) : p < q /\ trail[p] = trail[q]

----------------------------------------------------------------------------
(* Claims about parse_regex *)

\* A node unfolded into a value: <<class, symbol, left, right>>
T(ty, c, l, r) == <<ty, c, l, r>>
TChar(c) == T("Char", c, <<>>, <<>>)
TEps == T("Eps", "", <<>>, <<>>)
TStar(x) == T("Star", "", x, <<>>)
TOr(x, y) == T("Or", "", x, y)
TConcat(x, y) == T("Concat", "", x, y)

RECURSIVE Tree(_, _)
Tree(hp, n) ==
    LET nd == hp[n] IN
    T(nd.type, nd.c,
      IF nd.r1 = NullPtr THEN <<>> ELSE Tree(hp, nd.r1),
      IF nd.r2 = NullPtr THEN <<>> ELSE Tree(hp, nd.r2))

Postfix == {"*", "+", "?"}
Final == pc \in {"returned", "error", "crashed"}

\* Patterns of literals, '|' and postfix operators in which every operator has
\* its operands, and their parse by the grammar
\*   alt ::= cat | alt '|' cat     cat ::= post | cat post     post ::= literal | post ('*'|'+'|'?')
WellFormedFlat(p) ==
    /\ p # <<>>
    /\ \A k \in 1..Len(p) : p[k] \in Literals \cup Postfix \cup {"|"}
    /\ p[1] \in Literals
    /\ p[Len(p)] # "|"
    /\ \A k \in 1..(Len(p) - 1) : p[k] = "|" => p[k + 1] \in Literals

LastIndex(p, S) == CHOOSE k \in 1..Len(p) : p[k] \in S /\ \A l \in (k + 1)..Len(p) : p[l] \notin S

RECURSIVE RefPost(_)
RefPost(p) ==
    IF Len(p) = 1 THEN TChar(p[1])
    ELSE LET x == RefPost(Pop(p)) IN
         CASE Top(p) = "*" -> TStar(x)
           [] Top(p) = "+" -> TConcat(x, TStar(x))
           [] Top(p) = "?" -> TOr(TEps, x)

RECURSIVE RefCat(_)
RefCat(p) ==
    LET k == LastIndex(p, Literals) IN
    IF k = 1 THEN RefPost(p)
    ELSE TConcat(RefCat(SubSeq(p, 1, k - 1)), RefPost(SubSeq(p, k, Len(p))))

RECURSIVE RefAlt(_)
RefAlt(p) ==
    IF \A k \in 1..Len(p) : p[k] # "|" THEN RefCat(p)
    ELSE LET k == LastIndex(p, {"|"}) IN
         TOr(RefAlt(SubSeq(p, 1, k - 1)), RefCat(SubSeq(p, k + 1, Len(p))))

\* C2: a backslash makes the next symbol a literal: after a loop iteration
\* that read an escaped symbol x the parse goes on and Char(x) is the operand
\* on top of the stack and the previous operand, whatever x is; the pattern
\* \(a\) parses to the three literals ( a ).
C2_EscapeIsLiteral ==
    /\ lastTok.esc =>
           /\ pc = "scan"
           /\ operands # <<>>
           /\ heap[Top(operands)] = Node("Char", lastTok.c, NullPtr, NullPtr)
           /\ prev = Top(operands)
    /\ (s = <<"\\", "(", "a", "\\", ")">> /\ Final) =>
           /\ pc = "returned"
           /\ Tree(heap, retval) = TConcat(TConcat(TChar("("), TChar("a")), TChar(")"))

\* C3: two adjacent operands, each a literal, a postfixed operand or a group,
\* parse to the concatenation of the two.
OperandForms(c) ==
    { [pat |-> <<c>>, tree |-> TChar(c)],
      [pat |-> <<c, "*">>, tree |-> TStar(TChar(c))],
      [pat |-> <<"(", c, ")">>, tree |-> TChar(c)] }

C3_AdjacencyConcatenates ==
    \A X \in OperandForms("a"), Y \in OperandForms("b") :
        (s = X.pat \o Y.pat /\ Final) =>
            /\ pc = "returned"
            /\ Tree(heap, retval) = TConcat(X.tree, Y.tree)

\* C4: postfix binds tighter than concatenation, concatenation tighter than
\* alternation, both binary operators associate to the left: a pattern of
\* literals, '|' and postfix operators in which every operator has its
\* operands parses, without error, to the tree the grammar gives it.
C4_Precedence ==
    WellFormedFlat(s) =>
        /\ pc \in {"scan", "returned"}
        /\ pc = "returned" => Tree(heap, retval) = RefAlt(s)

C4_Witness ==
    /\ s = <<"a", "b", "|", "a", "*">>
    /\ pc = "returned"
    /\ Tree(heap, retval) = TOr(TConcat(TChar("a"), TChar("b")), TStar(TChar("a")))

\* Parenthesis depth after the whole pattern, -1 once a ')' had no open '('
RECURSIVE Depth(_, _)
Depth(p, d) ==
    IF p = <<>> THEN d
    ELSE IF p[1] = "(" THEN Depth(Tail(p), d + 1)
    ELSE IF p[1] = ")" THEN (IF d = 0 THEN -1 ELSE Depth(Tail(p), d - 1))
    ELSE Depth(Tail(p), d)

Unbalanced(p) == (\A k \in 1..Len(p) : p[k] # "\\") /\ Depth(p, 0) # 0

\* C5: a pattern with unbalanced parentheses ends in a SyntaxError, whatever
\* else it contains.
C5_UnbalancedIsSyntaxError == (Unbalanced(s) /\ Final) => pc = "error"

\* C6: every parse ends by returning its single remaining operand or by a
\* SyntaxError, and no step pops or reads the top of an empty operand stack.
C6_ReturnOrSyntaxError ==
    /\ pc # "ub"
    /\ Final => pc \in {"returned", "error"}
    /\ pc = "returned" => operands = <<retval>> /\ ops = <<>>

AllCachesEmpty == orCache = <<>> /\ catCache = <<>> /\ starCache = <<>>

\* C9 as stated: after a failed parse the caches hold what they held before
\* the call (nothing, for the first parse of a process).
C9_FailedParseLeavesNoEntries == pc = "error" => AllCachesEmpty

AllCompoundCached ==
    \A n \in 1..Len(heap) :
        /\ heap[n].type = "Or" =>
              /\ <<"Or", heap[n].r1, heap[n].r2>> \in DOMAIN orCache
              /\ orCache[<<"Or", heap[n].r1, heap[n].r2>>] = n
        /\ heap[n].type = "Concat" =>
              /\ <<"Concat", heap[n].r1, heap[n].r2>> \in DOMAIN catCache
              /\ catCache[<<"Concat", heap[n].r1, heap[n].r2>>] = n
        /\ heap[n].type = "Star" =>
              /\ heap[n].r1 \in DOMAIN starCache
              /\ starCache[heap[n].r1] = n

CacheEntries ==
    Cardinality(DOMAIN orCache) + Cardinality(DOMAIN catCache) + Cardinality(DOMAIN starCache)

\* C9 as amended: a failed parse does not undo interning; every Or, Concat and
\* Star node built before the SyntaxError is still held by its cache, one
\* entry per node.
C9_FailedParseKeepsEntries ==
    pc = "error" =>
        /\ AllCompoundCached
        /\ CacheEntries = Cardinality({n \in 1..Len(heap) : heap[n].type \in Compound})

C9_Witness ==
    /\ pc = "error"
    /\ s = <<"a", "*", "(">>
    /\ DOMAIN starCache = {3}
    /\ heap[starCache[3]] = Node("Star", "", 3, NullPtr)

\* C10: parentheses delimit operator scope: no parse that returns a node has
\* let an operator take an operand that was pushed before the innermost '('
\* still open, so a(|b) and a(b)| are never accepted as a|b.
C10_ParenScope ==
    /\ pc = "returned" => ~scopeBreak
    /\ (s \in {<<"a", "(", "|", "b", ")">>, <<"a", "(", "b", ")", "|">>} /\ pc = "returned")
          => Tree(heap, retval) # TOr(TChar("a"), TChar("b"))

====
